---- MODULE Spec2Model ----
(***************************************************************************)
(* A model of htmldiff: the tokenizer (TagIter, split_html), the matcher   *)
(* HTMLMatcher inherits from difflib.SequenceMatcher, the renderer         *)
(* (diff_html, text_delete, text_insert, is_invisible_change), the         *)
(* stylesheet splice, and the command-line entry point.                    *)
(*                                                                         *)
(* Strings are sequences of one-character strings; Python's 0-based        *)
(* positions are kept (Sub(s, lo, hi) is s[lo:hi]).  lib.py runs on byte   *)
(* strings (utf8_encode) and tests them with str literals                  *)
(* (item.startswith('<')), which only Python 2 accepts, so str and bytes   *)
(* are one type here.                                                      *)
(***************************************************************************)
EXTENDS Naturals, Integers, Sequences, FiniteSets, TLC

VARIABLES
    \* TagIter / split_html (one tokenizer run)
    it,             \* the TagIter object: html_string, pos, end_reached, buffer
    result,         \* split_html's result list
    tpc,            \* "idle" | "iter" | "done"
    \* diff_strings / HTMLMatcher
    orig, new,      \* the two documents
    accurate_mode,
    a, b,           \* self.a, self.b: the token lists
    opcodes,        \* get_opcodes()
    idx,            \* number of opcodes diff_html has processed
    out,            \* the SpooledBytesIO: the pieces written so far
    html,           \* diff_html's return value
    dpc,            \* "idle" | "init" | "seqs" | "render" | "style" | "done"
    \* entry_point.diff / main
    exists1, exists2,   \* os.path.exists of the two inputs
    has_output,         \* -o OUTPUT_FILE given
    readable,           \* the inputs can be opened and read
    writable,           \* the output file can be written
    interrupted,        \* KeyboardInterrupt was raised
    exit_code,          \* -1 while running
    written,            \* the diff was written (file or stdout)
    cpc                 \* "idle" | "check1" | "check2" | "diff" | "elapsed" | "exited"

tokVars == <<it, result, tpc>>
diffVars == <<orig, new, accurate_mode, a, b, opcodes, idx, out, html, dpc>>
cliVars == <<exists1, exists2, has_output, readable, writable, interrupted,
             exit_code, written, cpc>>
vars == <<tokVars, diffVars, cliVars>>

----------------------------------------------------------------------------
(* Strings *)

Sub(s, lo, hi) == SubSeq(s, lo + 1, hi)

Min(S) == CHOOSE x \in S : \A y \in S : x <= y

\* s.startswith(lit, i)
StartsWithAt(s, lit, i) ==
    /\ i + Len(lit) <= Len(s)
    /\ \A k \in 1..Len(lit) : s[i + k] = lit[k]

\* s.find(lit, from): the first position >= from where lit starts, or -1
Find(s, lit, from) ==
    LET S == {i \in from..(Len(s) - Len(lit)) : StartsWithAt(s, lit, i)}
    IN  IF S = {} THEN -1 ELSE Min(S)

RECURSIVE Join(_)
\* ''.join(lst)
Join(lst) == IF lst = <<>> THEN <<>> ELSE Head(lst) \o Join(Tail(lst))

----------------------------------------------------------------------------
(* constants.py: the regular expressions and the stopword list *)

WsChars == {" ", "\t", "\n", "\r"}
Nbsp == <<"&", "n", "b", "s", "p", ";">>
PunctChars == {",", ".", "&", ";", ":", "!", "?", "\"", "'", "<", ">",
               "/", "#", "=", "(", ")", "-"}
ScriptOpen == <<"<", "s", "c", "r", "i", "p", "t">>
ScriptClose == <<"<", "/", "s", "c", "r", "i", "p", "t", ">">>
STOPWORDS == { <<"a">>, <<"a", "n">>, <<"a", "n", "d">>, <<"t", "h", "e">> }

RECURSIVE WsLen(_, _)
\* (?:[ \n\r\t]|&nbsp;)+ matched at position p: the length of the run (0: no match)
WsLen(s, p) ==
    IF p < Len(s) /\ s[p + 1] \in WsChars THEN 1 + WsLen(s, p + 1)
    ELSE IF StartsWithAt(s, Nbsp, p) THEN Len(Nbsp) + WsLen(s, p + Len(Nbsp))
    ELSE 0

RECURSIVE WordLen(_, _)
\* [^ \n\r\t<punctuation>]+ matched at position p
WordLen(s, p) ==
    IF p < Len(s) /\ s[p + 1] \notin (WsChars \cup PunctChars)
    THEN 1 + WordLen(s, p + 1) ELSE 0

\* WORD_RE matched at position p: whitespace run | word run | one punctuation mark
WordMatchLen(s, p) ==
    IF WsLen(s, p) > 0 THEN WsLen(s, p)
    ELSE IF WordLen(s, p) > 0 THEN WordLen(s, p)
    ELSE IF p < Len(s) /\ s[p + 1] \in PunctChars THEN 1
    ELSE 0

RECURSIVE WORD_RE_findall(_, _)
\* WORD_RE.findall(s), scanning from p; a character no alternative matches is skipped
WORD_RE_findall(s, p) ==
    IF p >= Len(s) THEN <<>>
    ELSE LET n == WordMatchLen(s, p)
         IN  IF n = 0 THEN WORD_RE_findall(s, p + 1)
             ELSE <<Sub(s, p, p + n)>> \o WORD_RE_findall(s, p + n)

\* WS_RE.match(x): ^([ \n\r\t]|&nbsp;)+$
WS_RE_match(x) == x # <<>> /\ WsLen(x, 0) = Len(x)

\* TAG_RE = <script.*?>.*?</script>|<.*?> (DOTALL) tried at position i:
\* the end of the match, or -1
TagMatchEnd(s, i) ==
    LET gt1 == Find(s, <<">">>, i + Len(ScriptOpen))
        close == IF gt1 < 0 THEN -1 ELSE Find(s, ScriptClose, gt1 + 1)
        gt2 == Find(s, <<">">>, i + 1)
    IN  IF StartsWithAt(s, ScriptOpen, i) /\ close >= 0 THEN close + Len(ScriptClose)
        ELSE IF StartsWithAt(s, <<"<">>, i) /\ gt2 >= 0 THEN gt2 + 1
        ELSE -1

\* TAG_RE.search(s, pos): the leftmost match, start = -1 when there is none
TAG_RE_search(s, pos) ==
    LET S == {i \in pos..Len(s) : TagMatchEnd(s, i) >= 0}
    IN  IF S = {} THEN [start |-> -1, end |-> -1]
        ELSE [start |-> Min(S), end |-> TagMatchEnd(s, Min(S))]

\* \s of HEAD_RE
RECURSIVE SkipSpace(_, _)
SkipSpace(s, p) ==
    IF p < Len(s) /\ s[p + 1] \in (WsChars \cup {"\f"}) THEN SkipSpace(s, p + 1) ELSE p

Upper == <<"A", "B", "C", "D", "E", "F", "G", "H", "I", "J", "K", "L", "M",
           "N", "O", "P", "Q", "R", "S", "T", "U", "V", "W", "X", "Y", "Z">>
Lower == <<"a", "b", "c", "d", "e", "f", "g", "h", "i", "j", "k", "l", "m",
           "n", "o", "p", "q", "r", "s", "t", "u", "v", "w", "x", "y", "z">>

\* c.lower()
LowerChar(c) ==
    IF \E k \in 1..Len(Upper) : Upper[k] = c
    THEN Lower[CHOOSE k \in 1..Len(Upper) : Upper[k] = c] ELSE c

\* x.lower()
LowerStr(x) == [k \in 1..Len(x) |-> LowerChar(x[k])]

\* HEAD_RE = <\s*head\s*> (DOTALL, IGNORECASE) tried at position i
HeadMatchEnd(s, i) ==
    LET p1 == SkipSpace(s, i + 1)
        p2 == SkipSpace(s, p1 + 4)
    IN  IF /\ StartsWithAt(s, <<"<">>, i)
           /\ p1 + 4 <= Len(s)
           /\ LowerStr(Sub(s, p1, p1 + 4)) = <<"h", "e", "a", "d">>
           /\ StartsWithAt(s, <<">">>, p2)
        THEN p2 + 1 ELSE -1

\* HEAD_RE.search(s): the end of the leftmost match, or -1
HEAD_RE_search_end(s) ==
    LET S == {i \in 0..Len(s) : HeadMatchEnd(s, i) >= 0}
    IN  IF S = {} THEN -1 ELSE HeadMatchEnd(s, Min(S))

----------------------------------------------------------------------------
(* lib.py: is_junk *)

is_junk(x) == WS_RE_match(x) \/ LowerStr(x) \in STOPWORDS

----------------------------------------------------------------------------
(* lib.py: TagIter and split_html *)

TagIterInit(html_string) ==
    [html_string |-> html_string, pos |-> 0, end_reached |-> FALSE, buffer |-> <<>>]

\* TagIter.__next__ without self.buffer.append(match.group(0)): the matched
\* tag is never handed out
TagIterNextTagNotBuffered(t) ==
    LET m == TAG_RE_search(t.html_string, t.pos)
    IN  IF t.buffer # <<>>
        THEN [stop |-> FALSE, item |-> Head(t.buffer),
              it |-> [t EXCEPT !.buffer = Tail(@)]]
        ELSE IF t.end_reached
        THEN [stop |-> TRUE, item |-> <<>>, it |-> t]
        ELSE IF m.start < 0
        THEN [stop |-> FALSE, item |-> Sub(t.html_string, t.pos, Len(t.html_string)),
              it |-> [t EXCEPT !.end_reached = TRUE]]
        ELSE [stop |-> FALSE, item |-> Sub(t.html_string, t.pos, m.start),
              it |-> [t EXCEPT !.pos = m.end]]

\* TagIter.__next__: the item returned (stop: StopIteration) and the object after
TagIterNext(t) ==
    LET m == TAG_RE_search(t.html_string, t.pos)
    IN  IF t.buffer # <<>>
        THEN [stop |-> FALSE, item |-> Head(t.buffer),
              it |-> [t EXCEPT !.buffer = Tail(@)]]
        ELSE IF t.end_reached
        THEN [stop |-> TRUE, item |-> <<>>, it |-> t]
        ELSE IF m.start < 0
        THEN [stop |-> FALSE, item |-> Sub(t.html_string, t.pos, Len(t.html_string)),
              it |-> [t EXCEPT !.end_reached = TRUE]]
        ELSE [stop |-> FALSE, item |-> Sub(t.html_string, t.pos, m.start),
              it |-> [t EXCEPT !.buffer = Append(@, Sub(t.html_string, m.start, m.end)),
                               !.pos = m.end]]

\* split_html's loop body without its else branch: text runs are not added
SplitItemTextDropped(res, item) ==
    IF StartsWithAt(item, <<"<">>, 0) THEN Append(res, item) ELSE res

\* the body of split_html's loop
SplitItem(res, item) ==
    IF StartsWithAt(item, <<"<">>, 0) THEN Append(res, item)
    ELSE res \o WORD_RE_findall(item, 0)

RECURSIVE SplitLoop(_, _)
SplitLoop(t, res) ==
    LET r == TagIterNext(t)
    IN  IF r.stop THEN res ELSE SplitLoop(r.it, SplitItem(res, r.item))

\* HTMLMatcher.split_html
split_html(t) == SplitLoop(TagIterInit(t), <<>>)

----------------------------------------------------------------------------
(* difflib.SequenceMatcher, as HTMLMatcher.__init__ configures it            *)
(* (isjunk: lambda x: False, or is_junk; autojunk = False).  A, B are the    *)
(* token lists, acc is accurate_mode.                                        *)

\* isbjunk: the junk predicate __chain_b applies to the elements of b
isbjunk(acc, x) == (~acc) /\ is_junk(x)

RECURSIVE RunLen(_, _, _, _, _, _, _)
\* find_longest_match's j2len[j] after row i: the length of the run of equal,
\* non-junk elements ending at (i, j) inside the region that starts at (alo, blo)
RunLen(A, B, acc, alo, blo, i, j) ==
    IF i < alo \/ j < blo THEN 0
    ELSE IF A[i + 1] = B[j + 1] /\ ~isbjunk(acc, B[j + 1])
    THEN 1 + RunLen(A, B, acc, alo, blo, i - 1, j - 1)
    ELSE 0

\* the first loop of find_longest_match: rows i ascending, columns j ascending,
\* best replaced only by a strictly longer run
LongestSeed(A, B, acc, alo, ahi, blo, bhi) ==
    LET P == (alo..(ahi - 1)) \X (blo..(bhi - 1))
        K(p) == RunLen(A, B, acc, alo, blo, p[1], p[2])
        Hits == {p \in P : K(p) > 0}
        Best == {p \in Hits : \A q \in Hits : K(q) <= K(p)}
        first == CHOOSE p \in Best :
                    \A q \in Best : p[1] < q[1] \/ (p[1] = q[1] /\ p[2] <= q[2])
    IN  IF Hits = {} THEN [i |-> alo, j |-> blo, size |-> 0]
        ELSE [i |-> first[1] - K(first) + 1, j |-> first[2] - K(first) + 1,
              size |-> K(first)]

RECURSIVE ExtendBack(_, _, _, _, _, _, _)
\* while besti > alo and bestj > blo and isbjunk(b[bestj-1]) == junk
\*       and a[besti-1] == b[bestj-1]: grow the match to the left
ExtendBack(A, B, acc, alo, blo, junk, m) ==
    IF /\ m.i > alo /\ m.j > blo
       /\ isbjunk(acc, B[m.j]) = junk
       /\ A[m.i] = B[m.j]
    THEN ExtendBack(A, B, acc, alo, blo, junk,
                    [i |-> m.i - 1, j |-> m.j - 1, size |-> m.size + 1])
    ELSE m

RECURSIVE ExtendFwd(_, _, _, _, _, _, _)
\* while besti+bestsize < ahi and bestj+bestsize < bhi and
\*       isbjunk(b[bestj+bestsize]) == junk and a[...] == b[...]: grow to the right
ExtendFwd(A, B, acc, ahi, bhi, junk, m) ==
    IF /\ m.i + m.size < ahi /\ m.j + m.size < bhi
       /\ isbjunk(acc, B[m.j + m.size + 1]) = junk
       /\ A[m.i + m.size + 1] = B[m.j + m.size + 1]
    THEN ExtendFwd(A, B, acc, ahi, bhi, junk, [m EXCEPT !.size = @ + 1])
    ELSE m

\* find_longest_match without its last two loops: a match never grows through
\* junk elements
find_longest_match_NoJunkGrowth(A, B, acc, alo, ahi, blo, bhi) ==
    LET m0 == LongestSeed(A, B, acc, alo, ahi, blo, bhi)
        m1 == ExtendBack(A, B, acc, alo, blo, FALSE, m0)
    IN  ExtendFwd(A, B, acc, ahi, bhi, FALSE, m1)

\* SequenceMatcher.find_longest_match(alo, ahi, blo, bhi)
find_longest_match(A, B, acc, alo, ahi, blo, bhi) ==
    LET m0 == LongestSeed(A, B, acc, alo, ahi, blo, bhi)
        m1 == ExtendBack(A, B, acc, alo, blo, FALSE, m0)
        m2 == ExtendFwd(A, B, acc, ahi, bhi, FALSE, m1)
        m3 == ExtendBack(A, B, acc, alo, blo, TRUE, m2)
    IN  ExtendFwd(A, B, acc, ahi, bhi, TRUE, m3)

RECURSIVE BlocksInLeftOnly(_, _, _, _, _, _, _)
\* get_matching_blocks without queue.append((i+k, ahi, j+k, bhi)): the region
\* right of a match is never searched
BlocksInLeftOnly(A, B, acc, alo, ahi, blo, bhi) ==
    LET x == find_longest_match(A, B, acc, alo, ahi, blo, bhi)
        left == IF alo < x.i /\ blo < x.j
                THEN BlocksInLeftOnly(A, B, acc, alo, x.i, blo, x.j) ELSE <<>>
    IN  IF x.size = 0 THEN <<>> ELSE left \o <<x>>

RECURSIVE BlocksIn(_, _, _, _, _, _, _)
\* get_matching_blocks' queue loop followed by matching_blocks.sort(): the
\* blocks of the region left of a match, the match, the blocks right of it
BlocksIn(A, B, acc, alo, ahi, blo, bhi) ==
    LET x == find_longest_match(A, B, acc, alo, ahi, blo, bhi)
        left == IF alo < x.i /\ blo < x.j
                THEN BlocksIn(A, B, acc, alo, x.i, blo, x.j) ELSE <<>>
        right == IF x.i + x.size < ahi /\ x.j + x.size < bhi
                 THEN BlocksIn(A, B, acc, x.i + x.size, ahi, x.j + x.size, bhi)
                 ELSE <<>>
    IN  IF x.size = 0 THEN <<>> ELSE left \o <<x>> \o right

RECURSIVE Merge(_, _, _)
\* get_matching_blocks' second loop: adjacent blocks collapse into one;
\* cur is (i1, j1, k1), acc2 is non_adjacent
Merge(blocks, cur, acc2) ==
    IF blocks = <<>>
    THEN IF cur.size > 0 THEN Append(acc2, cur) ELSE acc2
    ELSE LET x == Head(blocks)
         IN  IF cur.i + cur.size = x.i /\ cur.j + cur.size = x.j
             THEN Merge(Tail(blocks), [cur EXCEPT !.size = @ + x.size], acc2)
             ELSE Merge(Tail(blocks), x,
                        IF cur.size > 0 THEN Append(acc2, cur) ELSE acc2)

\* SequenceMatcher.get_matching_blocks(), the sentinel (la, lb, 0) last
get_matching_blocks(A, B, acc) ==
    Append(Merge(BlocksIn(A, B, acc, 0, Len(A), 0, Len(B)),
                 [i |-> 0, j |-> 0, size |-> 0], <<>>),
           [i |-> Len(A), j |-> Len(B), size |-> 0])

\* get_opcodes without its "elif j < bj" branch: an insertion gets no opcode
GapTagNoInsert(i, j, ai, bj) ==
    IF i < ai /\ j < bj THEN "replace"
    ELSE IF i < ai THEN "delete"
    ELSE ""

\* get_opcodes with 'delete' in both elif branches
GapTagInsertAsDelete(i, j, ai, bj) ==
    IF i < ai /\ j < bj THEN "replace"
    ELSE IF i < ai THEN "delete"
    ELSE IF j < bj THEN "delete"
    ELSE ""

\* the tag get_opcodes gives the gap before a block
GapTag(i, j, ai, bj) ==
    IF i < ai /\ j < bj THEN "replace"
    ELSE IF i < ai THEN "delete"
    ELSE IF j < bj THEN "insert"
    ELSE ""

RECURSIVE OpcodesFrom(_, _, _)
\* get_opcodes' loop over the matching blocks, (i, j) the end of the last block
OpcodesFrom(blocks, i, j) ==
    IF blocks = <<>> THEN <<>>
    ELSE LET x == Head(blocks)
             tag == GapTag(i, j, x.i, x.j)
             gap == IF tag # ""
                    THEN <<[tag |-> tag, i1 |-> i, i2 |-> x.i, j1 |-> j, j2 |-> x.j]>>
                    ELSE <<>>
             eq == IF x.size > 0
                   THEN <<[tag |-> "equal", i1 |-> x.i, i2 |-> x.i + x.size,
                           j1 |-> x.j, j2 |-> x.j + x.size]>>
                   ELSE <<>>
         IN  gap \o eq \o OpcodesFrom(Tail(blocks), x.i + x.size, x.j + x.size)

\* SequenceMatcher.get_opcodes()
get_opcodes(A, B, acc) == OpcodesFrom(get_matching_blocks(A, B, acc), 0, 0)

----------------------------------------------------------------------------
(* lib.py: HTMLMatcher's renderer.  A rendering is the list of the values   *)
(* written to out, in order; out.getvalue() is their concatenation.  The    *)
(* marker texts are single elements.                                        *)

start_insert_text == "<span class=\"insert\">"
end_span_text == "</span>"
start_delete_text == "<span class=\"delete\">"
style_open == "\n<style type=\"text/css\">\n"
stylesheet == ".insert {...} .delete {...} .tagInsert {...} .tagDelete {...}"
style_close == "</style>"

\* not s.strip()
StripChars == {" ", "\t", "\n", "\r", "\f"}
StripsToEmpty(s) == \A k \in 1..Len(s) : s[k] \in StripChars

\* out_delete(s, out): the value written
out_delete(s) ==
    IF StripsToEmpty(s) THEN s ELSE <<start_delete_text>> \o s \o <<end_span_text>>

\* out_insert without the test of s.strip(): every run is wrapped
out_insert_AlwaysWrapped(s) == <<start_insert_text>> \o s \o <<end_span_text>>

\* out_insert(s, out): the value written
out_insert(s) ==
    IF StripsToEmpty(s) THEN s ELSE <<start_insert_text>> \o s \o <<end_span_text>>

RECURSIVE TextDeleteLoop(_, _, _)
\* text_delete's loop: lst the items left, text the accumulated run, w the writes
TextDeleteLoop(lst, text, w) ==
    IF lst = <<>> THEN Append(w, out_delete(Join(text)))
    ELSE IF StartsWithAt(Head(lst), <<"<">>, 0)
    THEN TextDeleteLoop(Tail(lst), <<>>, Append(w, out_delete(Join(text))))
    ELSE TextDeleteLoop(Tail(lst), Append(text, Head(lst)), w)

\* HTMLMatcher.text_delete(lst, out): the writes
text_delete(lst) == TextDeleteLoop(lst, <<>>, <<>>)

RECURSIVE TextInsertLoop(_, _, _)
\* text_insert's loop
TextInsertLoop(lst, text, w) ==
    IF lst = <<>> THEN Append(w, out_insert(Join(text)))
    ELSE IF StartsWithAt(Head(lst), <<"<">>, 0)
    THEN TextInsertLoop(Tail(lst), <<>>,
                        Append(Append(w, out_insert(Join(text))), Head(lst)))
    ELSE TextInsertLoop(Tail(lst), Append(text, Head(lst)), w)

\* HTMLMatcher.text_insert(lst, out): the writes
text_insert(lst) == TextInsertLoop(lst, <<>>, <<>>)

\* HTMLMatcher.is_invisible_change(seq1, seq2)
is_invisible_change(seq1, seq2) ==
    /\ Len(seq1) = Len(seq2)
    /\ \A i \in 1..Len(seq1) :
          \/ seq1[i][1] = "<" /\ seq2[i][1] = "<"
          \/ WS_RE_match(seq1[i]) /\ WS_RE_match(seq2[i])
          \/ seq1[i] = seq2[i]

\* HTMLMatcher.insert_stylesheet(html)
insert_stylesheet(h) ==
    LET e == HEAD_RE_search_end(h)
        pos == IF e >= 0 THEN e ELSE 0
    IN  Sub(h, 0, pos) \o <<style_open, stylesheet, style_close>> \o Sub(h, pos, Len(h))

----------------------------------------------------------------------------
(* Inputs *)

MaxTokPieces == 4
MaxMatchPieces == 3
MaxRenderPieces == 2
MaxSelfPieces == 3

TokPieces == { <<"<">>, <<">">>, <<"a">>, <<" ">>, <<",">>, Nbsp,
               ScriptOpen \o <<">">>, ScriptClose }
MatchPieces == { <<"a">>, <<" ">>, <<"<", "p", ">">> }
RenderPieces == { <<"a">>, <<" ">>, <<"\t">>, <<"<", "p", ">">>, <<"<">> }
SelfPieces == { <<"a">>, <<"A">>, <<" ">>, <<",">>, <<"<", "p", ">">>, <<"<">>,
                <<"<", "H", "e", "a", "d", " ", ">">> }

RECURSIVE DocsUpTo(_, _)
\* the concatenations of at most n pieces
DocsUpTo(P, n) ==
    IF n = 0 THEN { <<>> }
    ELSE LET S == DocsUpTo(P, n - 1) IN S \cup {d \o q : d \in S, q \in P}

----------------------------------------------------------------------------
(* The tokenizer run: split_html(t), one action per path of __next__ *)

TokIdle == it = TagIterInit(<<>>) /\ result = <<>> /\ tpc = "idle"
DiffIdle ==
    /\ orig = <<>> /\ new = <<>> /\ accurate_mode = TRUE
    /\ a = <<>> /\ b = <<>> /\ opcodes = <<>> /\ idx = 0
    /\ out = <<>> /\ html = <<>> /\ dpc = "idle"
CliIdle ==
    /\ exists1 = FALSE /\ exists2 = FALSE /\ has_output = FALSE
    /\ readable = FALSE /\ writable = FALSE /\ interrupted = FALSE
    /\ exit_code = -1 /\ written = FALSE /\ cpc = "idle"

InitTok ==
    /\ \E t \in DocsUpTo(TokPieces, MaxTokPieces) : it = TagIterInit(t)
    /\ result = <<>>
    /\ tpc = "iter"
    /\ DiffIdle /\ CliIdle

\* one pass of "for item in TagIter(t)": __next__, then the loop body
SplitStep ==
    LET r == TagIterNext(it)
    IN  IF r.stop
        THEN tpc' = "done" /\ UNCHANGED <<it, result>>
        ELSE it' = r.it /\ result' = SplitItem(result, r.item) /\ tpc' = tpc

NextBuffered ==
    /\ tpc = "iter" /\ it.buffer # <<>>
    /\ SplitStep
    /\ UNCHANGED <<diffVars, cliVars>>

NextStop ==
    /\ tpc = "iter" /\ it.buffer = <<>> /\ it.end_reached
    /\ SplitStep
    /\ UNCHANGED <<diffVars, cliVars>>

NextTail ==
    /\ tpc = "iter" /\ it.buffer = <<>> /\ ~it.end_reached
    /\ TAG_RE_search(it.html_string, it.pos).start < 0
    /\ SplitStep
    /\ UNCHANGED <<diffVars, cliVars>>

NextMatch ==
    /\ tpc = "iter" /\ it.buffer = <<>> /\ ~it.end_reached
    /\ TAG_RE_search(it.html_string, it.pos).start >= 0
    /\ SplitStep
    /\ UNCHANGED <<diffVars, cliVars>>

NextTok == NextBuffered \/ NextStop \/ NextTail \/ NextMatch

SpecTok == InitTok /\ [][NextTok]_vars

----------------------------------------------------------------------------
(* diff_strings(orig, new, accurate_mode) *)

Init ==
    /\ \/ /\ orig \in DocsUpTo(MatchPieces, MaxMatchPieces)
          /\ new \in DocsUpTo(MatchPieces, MaxMatchPieces)
       \/ /\ orig \in DocsUpTo(RenderPieces, MaxRenderPieces)
          /\ new \in DocsUpTo(RenderPieces, MaxRenderPieces)
       \/ /\ orig \in DocsUpTo(SelfPieces, MaxSelfPieces)
          /\ new = orig
    /\ accurate_mode \in BOOLEAN
    /\ a = <<>> /\ b = <<>> /\ opcodes = <<>> /\ idx = 0
    /\ out = <<>> /\ html = <<>> /\ dpc = "init"
    /\ TokIdle /\ CliIdle

\* HTMLMatcher.__init__: SequenceMatcher.__init__ calls set_seqs, overridden to
\* split both documents (utf8_encode leaves a str as it is)
SetSeqs ==
    /\ dpc = "init"
    /\ a' = split_html(orig)
    /\ b' = split_html(new)
    /\ dpc' = "seqs"
    /\ UNCHANGED <<orig, new, accurate_mode, opcodes, idx, out, html>>
    /\ UNCHANGED <<tokVars, cliVars>>

\* diff_html: opcodes = self.get_opcodes(); out = SpooledBytesIO()
GetOpcodes ==
    /\ dpc = "seqs"
    /\ opcodes' = get_opcodes(a, b, accurate_mode)
    /\ idx' = 0
    /\ out' = <<>>
    /\ dpc' = "render"
    /\ UNCHANGED <<orig, new, accurate_mode, a, b, html>>
    /\ UNCHANGED <<tokVars, cliVars>>

\* one pass of diff_html's loop writes w
Render(tag, w) ==
    /\ dpc = "render"
    /\ idx < Len(opcodes)
    /\ opcodes[idx + 1].tag = tag
    /\ out' = out \o w
    /\ idx' = idx + 1
    /\ UNCHANGED <<orig, new, accurate_mode, a, b, opcodes, html, dpc>>
    /\ UNCHANGED <<tokVars, cliVars>>

\* a[i1:i2] and b[j1:j2] of the opcode diff_html is at
CurA == Sub(a, opcodes[idx + 1].i1, opcodes[idx + 1].i2)
CurB == Sub(b, opcodes[idx + 1].j1, opcodes[idx + 1].j2)

RenderEqual == Render("equal", CurA)

RenderDelete == Render("delete", text_delete(CurA))

RenderInsert == Render("insert", text_insert(CurB))

RenderReplace ==
    Render("replace",
           IF is_invisible_change(CurA, CurB) THEN CurB
           ELSE text_delete(CurA) \o text_insert(CurB))

\* html = out.getvalue(); html = self.insert_stylesheet(html); return html
InsertStylesheet ==
    /\ dpc = "render"
    /\ idx = Len(opcodes)
    /\ html' = insert_stylesheet(Join(out))
    /\ dpc' = "done"
    /\ UNCHANGED <<orig, new, accurate_mode, a, b, opcodes, idx, out>>
    /\ UNCHANGED <<tokVars, cliVars>>

Next ==
    \/ SetSeqs \/ GetOpcodes
    \/ RenderEqual \/ RenderDelete \/ RenderInsert \/ RenderReplace
    \/ InsertStylesheet

Spec == Init /\ [][Next]_vars

----------------------------------------------------------------------------
(* entry_point.py: main() and diff() *)

\* diff_files(initial_path, new_path, accurate_mode): three parameters, no default
DiffFilesParams == 3
\* diff_files(input_file1, input_file2): the call in diff()
DiffFilesArgs == 2

\* the outcome of calling diff_files with nargs positional arguments
DiffFilesCall(nargs) ==
    IF nargs # DiffFilesParams THEN "TypeError"
    ELSE IF ~readable THEN "IOError"
    ELSE "ok"

InitCli ==
    /\ exists1 \in BOOLEAN /\ exists2 \in BOOLEAN
    /\ has_output \in BOOLEAN
    /\ readable \in BOOLEAN /\ writable \in BOOLEAN
    /\ interrupted = FALSE
    /\ exit_code = -1
    /\ written = FALSE
    /\ cpc = "check1"
    /\ TokIdle /\ DiffIdle

\* sys.exit(code)
Exit(code) == exit_code' = code /\ cpc' = "exited"

\* if not os.path.exists(input_file1): sys.exit(1)
CheckInput1 ==
    /\ cpc = "check1"
    /\ IF exists1 THEN cpc' = "check2" /\ exit_code' = exit_code ELSE Exit(1)
    /\ UNCHANGED <<exists1, exists2, has_output, readable, writable, interrupted, written>>
    /\ UNCHANGED <<tokVars, diffVars>>

\* if not os.path.exists(input_file2): sys.exit(1)
CheckInput2 ==
    /\ cpc = "check2"
    /\ IF exists2 THEN cpc' = "diff" /\ exit_code' = exit_code ELSE Exit(1)
    /\ UNCHANGED <<exists1, exists2, has_output, readable, writable, interrupted, written>>
    /\ UNCHANGED <<tokVars, diffVars>>

\* the rest of diff() and of main(): the try around diff_files, the output, the
\* elapsed-time line and the return to the console script (exit status 0)
DiffAndWrite ==
    /\ cpc = "diff"
    /\ IF DiffFilesCall(DiffFilesArgs) # "ok"
       THEN Exit(1) /\ written' = written
       ELSE IF has_output /\ ~writable
       THEN Exit(1) /\ written' = written
       ELSE Exit(0) /\ written' = TRUE
    /\ UNCHANGED <<exists1, exists2, has_output, readable, writable, interrupted>>
    /\ UNCHANGED <<tokVars, diffVars>>

\* main(): except KeyboardInterrupt: sys.exit(1)
Interrupt ==
    /\ cpc \in {"check1", "check2", "diff"}
    /\ interrupted' = TRUE
    /\ Exit(1)
    /\ UNCHANGED <<exists1, exists2, has_output, readable, writable, written>>
    /\ UNCHANGED <<tokVars, diffVars>>

NextCli == CheckInput1 \/ CheckInput2 \/ DiffAndWrite \/ Interrupt

SpecCli == InitCli /\ [][NextCli]_vars

----------------------------------------------------------------------------
(* Properties of the matcher *)

Range(s) == {s[k] : k \in 1..Len(s)}

\* get_opcodes has run
Rendered == dpc \in {"render", "done"}

RangeA(op) == Sub(a, op.i1, op.i2)
RangeB(op) == Sub(b, op.j1, op.j2)

RECURSIVE ConcatRanges(_, _)
\* the A-ranges (side = "a") or B-ranges (side = "b") of ops, concatenated in order
ConcatRanges(ops, side) ==
    IF ops = <<>> THEN <<>>
    ELSE (IF side = "a" THEN RangeA(Head(ops)) ELSE RangeB(Head(ops)))
         \o ConcatRanges(Tail(ops), side)

\* C1: in both modes the opcodes diff_html consumes partition both token lists:
\* they start at (0, 0), each opcode starts where the one before ends, the last
\* ends at (len(a), len(b)), and the ranges concatenated give a and b back.
C1_Partition ==
    Rendered =>
        /\ \A k \in 1..Len(opcodes) :
              /\ 0 <= opcodes[k].i1 /\ opcodes[k].i1 <= opcodes[k].i2
              /\ opcodes[k].i2 <= Len(a)
              /\ 0 <= opcodes[k].j1 /\ opcodes[k].j1 <= opcodes[k].j2
              /\ opcodes[k].j2 <= Len(b)
        /\ \A k \in 1..(Len(opcodes) - 1) :
              /\ opcodes[k].i2 = opcodes[k + 1].i1
              /\ opcodes[k].j2 = opcodes[k + 1].j1
        /\ opcodes = <<>> => (a = <<>> /\ b = <<>>)
        /\ opcodes # <<>> =>
              /\ opcodes[1].i1 = 0 /\ opcodes[1].j1 = 0
              /\ opcodes[Len(opcodes)].i2 = Len(a)
              /\ opcodes[Len(opcodes)].j2 = Len(b)
        /\ ConcatRanges(opcodes, "a") = a
        /\ ConcatRanges(opcodes, "b") = b

\* fast mode, three or more opcodes, a replace among them
C1_Witness ==
    /\ dpc = "done" /\ ~accurate_mode
    /\ Len(opcodes) >= 3
    /\ \E k \in 1..Len(opcodes) : opcodes[k].tag = "replace"

WholeEqual == <<[tag |-> "equal", i1 |-> 0, i2 |-> Len(a), j1 |-> 0, j2 |-> Len(a)]>>

\* C2 as stated: aligning a token list of any length with itself gives exactly
\* one opcode, equal, over [0, len(a)) on both sides.
C2_Identity == (Rendered /\ a = b) => opcodes = WholeEqual

\* C2 as amended: a non-empty token list aligned with itself gives the single
\* equal opcode over all of it, in both modes; the empty list gives no opcode.
C2_IdentityNonEmpty ==
    (Rendered /\ a = b) => opcodes = (IF a = <<>> THEN <<>> ELSE WholeEqual)

\* fast mode, a list with a junk token, a non-junk token and a repeated token
C2_Witness ==
    /\ Rendered /\ a = b /\ ~accurate_mode
    /\ \E i, j \in 1..Len(a) : i # j /\ a[i] = a[j]
    /\ \E i, j \in 1..Len(a) : is_junk(a[i]) /\ ~is_junk(a[j])
    /\ opcodes = WholeEqual

SwapTag(t) == IF t = "insert" THEN "delete" ELSE IF t = "delete" THEN "insert" ELSE t

RECURSIVE Mirror(_)
\* the opcodes with the two sides exchanged
Mirror(ops) ==
    IF ops = <<>> THEN <<>>
    ELSE <<[tag |-> SwapTag(Head(ops).tag), i1 |-> Head(ops).j1, i2 |-> Head(ops).j2,
            j1 |-> Head(ops).i1, j2 |-> Head(ops).i2]>> \o Mirror(Tail(ops))

NoRepeat(s) == \A i, j \in 1..Len(s) : i # j => s[i] # s[j]

IsIn(s, t) == t \in Range(s)
\* the elements of s that occur in r, in s's order
CommonOf(s, r) == SelectSeq(s, LAMBDA t : IsIn(r, t))

\* C3 as stated: the opcodes of align(b, a) are those of align(a, b) mirrored.
C3_Symmetry ==
    (dpc = "render" /\ idx = 0) => get_opcodes(b, a, accurate_mode) = Mirror(opcodes)

\* C3 as amended: the opcodes of align(b, a) are those of align(a, b) mirrored
\* when no token is repeated within a or within b and the tokens common to both
\* stand in the same order in both.
C3_SymmetryNoRepeat ==
    (/\ dpc = "render" /\ idx = 0
     /\ NoRepeat(a) /\ NoRepeat(b)
     /\ CommonOf(a, b) = CommonOf(b, a))
    => get_opcodes(b, a, accurate_mode) = Mirror(opcodes)

\* the amended claim's case with an insert, an equal and a delete or replace
C3_Witness ==
    /\ dpc = "render" /\ idx = 0
    /\ NoRepeat(a) /\ NoRepeat(b) /\ CommonOf(a, b) = CommonOf(b, a)
    /\ \E k \in 1..Len(opcodes) : opcodes[k].tag = "insert"
    /\ \E k \in 1..Len(opcodes) : opcodes[k].tag = "equal"
    /\ Len(opcodes) >= 3

\* C6 as stated: no replace opcode has a token that occurs in both of its ranges.
C6_NoCommonInReplace ==
    Rendered =>
        \A k \in 1..Len(opcodes) :
            opcodes[k].tag = "replace" =>
                Range(RangeA(opcodes[k])) \cap Range(RangeB(opcodes[k])) = {}

\* C6 as amended: no replace opcode has a non-junk token that occurs in both of
\* its ranges (in accurate mode no token is junk); a junk token common to both
\* may stay unmatched.
C6_NoCommonNonJunkInReplace ==
    Rendered =>
        \A k \in 1..Len(opcodes) :
            opcodes[k].tag = "replace" =>
                \A t \in Range(RangeA(opcodes[k])) \cap Range(RangeB(opcodes[k])) :
                    isbjunk(accurate_mode, t)

\* fast mode: a replace whose ranges share a junk token and hold non-junk tokens
C6_Witness ==
    /\ Rendered /\ ~accurate_mode
    /\ \E k \in 1..Len(opcodes) :
          /\ opcodes[k].tag = "replace"
          /\ Range(RangeA(opcodes[k])) \cap Range(RangeB(opcodes[k])) # {}
          /\ \E t \in Range(RangeB(opcodes[k])) : ~is_junk(t)

Markers == {start_insert_text, start_delete_text, end_span_text}
StyleBlock == <<style_open, stylesheet, style_close>>

\* C4: in both modes, a document diffed against itself comes back with no insert
\* span and no delete span: the output is the document with the stylesheet block
\* spliced in at one place.
C4_NoOpRoundTrip ==
    (dpc = "done" /\ orig = new) =>
        /\ \A k \in 1..Len(html) : html[k] \notin Markers
        /\ \E p \in 0..Len(orig) :
              html = Sub(orig, 0, p) \o StyleBlock \o Sub(orig, p, Len(orig))

\* fast mode, a document with a head tag, text after it, three or more tokens
C4_Witness ==
    /\ dpc = "done" /\ orig = new /\ ~accurate_mode
    /\ Len(a) >= 3
    /\ HEAD_RE_search_end(orig) > 0
    /\ HEAD_RE_search_end(orig) < Len(orig)
    /\ html[1] = "<"

----------------------------------------------------------------------------
(* Properties of the renderer *)

\* what the code takes for a tag: item.startswith('<')
IsTagItem(x) == StartsWithAt(x, <<"<">>, 0)
IsTextItem(x) == ~IsTagItem(x)
\* a Tag token of the tokenizer: one whole match of TAG_RE
IsTagToken(x) == x # <<>> /\ TagMatchEnd(x, 0) = Len(x)
NotMarker(c) == c \notin Markers

\* the values one pass of diff_html's loop appends to out
Written == SubSeq(out', Len(out) + 1, Len(out'))

\* diff_html processes an opcode of this tag
Step(tag) == dpc = "render" /\ idx' = idx + 1 /\ opcodes[idx + 1].tag = tag

\* a flushed run: as it is when blank, else inside one span opened by start,
\* with no marker and no '<' inside
FlushedOk(x, start) ==
    \/ StripsToEmpty(x)
    \/ /\ Len(x) >= 3
       /\ x[1] = start /\ x[Len(x)] = end_span_text
       /\ ~StripsToEmpty(SubSeq(x, 2, Len(x) - 1))
       /\ \A k \in 2..(Len(x) - 1) : x[k] \notin (Markers \cup {"<"})

\* the wrapping rule as the claim states it, for the writes w of a range lst:
\* every Tag token written, unwrapped, at its place; every run flushed
WrapRule(lst, w, start) ==
    /\ SelectSeq(w, IsTagToken) = SelectSeq(lst, IsTagToken)
    /\ SelectSeq(Join(w), NotMarker) = Join(lst)
    /\ \A k \in 1..Len(w) : IsTextItem(w[k]) => FlushedOk(w[k], start)

\* the rule text_insert follows: every item that starts with '<' written,
\* unwrapped, at its place, one flushed run before each and one at the end
InsertRule(lst, w) ==
    /\ SelectSeq(w, IsTagItem) = SelectSeq(lst, IsTagItem)
    /\ SelectSeq(Join(w), NotMarker) = Join(lst)
    /\ Len(SelectSeq(w, IsTextItem)) = Len(SelectSeq(lst, IsTagItem)) + 1
    /\ \A k \in 1..Len(w) : IsTextItem(w[k]) => FlushedOk(w[k], start_insert_text)

\* the rule text_delete follows: the items that start with '<' are not written;
\* the runs between them are flushed, one before each and one at the end
DeleteRule(lst, w) ==
    /\ SelectSeq(w, IsTagItem) = <<>>
    /\ SelectSeq(Join(w), NotMarker) = Join(SelectSeq(lst, IsTextItem))
    /\ Len(w) = Len(SelectSeq(lst, IsTagItem)) + 1
    /\ \A k \in 1..Len(w) : FlushedOk(w[k], start_delete_text)

NDel == Len(SelectSeq(CurA, IsTagItem)) + 1

\* C8 as stated: for a delete range as for an insert range every Tag token of the
\* range is written, unwrapped, at its place, and each run of text is flushed,
\* wrapped in the span when it is not blank.
C8_WrapRule ==
    [][/\ Step("delete") => WrapRule(CurA, Written, start_delete_text)
       /\ Step("insert") => WrapRule(CurB, Written, start_insert_text)]_vars

\* C8 as amended: for an insert range every item that starts with '<' is
\* written, unwrapped, at its place, and the runs between are flushed, wrapped in
\* the insert span when not blank; for a delete range the items that start with
\* '<' are not written at all, only the runs between them are flushed, wrapped
\* in the delete span when not blank.  A visible replace writes the delete
\* rendering of its A-range, then the insert rendering of its B-range.  No tag is
\* written inside a span.
C8_WrapRuleTagsOfDeleteDropped ==
    [][/\ Step("insert") => InsertRule(CurB, Written)
       /\ Step("delete") => DeleteRule(CurA, Written)
       /\ (Step("replace") /\ ~is_invisible_change(CurA, CurB)) =>
             /\ Len(Written) >= NDel
             /\ DeleteRule(CurA, SubSeq(Written, 1, NDel))
             /\ InsertRule(CurB, SubSeq(Written, NDel + 1, Len(Written)))]_vars

\* a delete range with a tag, a blank run and a non-blank run has been rendered,
\* and so has an insert range with a tag
C8_Witness ==
    /\ dpc = "done"
    /\ \E k \in 1..Len(opcodes) :
          /\ opcodes[k].tag = "delete"
          /\ \E x \in Range(RangeA(opcodes[k])) : IsTagToken(x)
          /\ \E x \in Range(RangeA(opcodes[k])) : IsTextItem(x) /\ ~StripsToEmpty(x)
    /\ \E k \in 1..Len(opcodes) :
          /\ opcodes[k].tag = "insert"
          /\ \E x \in Range(RangeB(opcodes[k])) : IsTagToken(x)

\* the invisible-change test as the claim states it
ClaimInvisible(seq1, seq2) ==
    /\ Len(seq1) = Len(seq2)
    /\ \A i \in 1..Len(seq1) :
          \/ IsTagToken(seq1[i]) /\ IsTagToken(seq2[i])
          \/ WS_RE_match(seq1[i]) /\ WS_RE_match(seq2[i])
          \/ seq1[i] = seq2[i]

\* C9: a replace opcode writes b[j1:j2] as it is exactly when the ranges have the
\* same length and at each position both tokens are Tag tokens, or both are
\* whitespace, or the two are identical; otherwise it writes the delete rendering
\* of a[i1:i2] followed by the insert rendering of b[j1:j2].
C9_InvisibleRule ==
    [][Step("replace") =>
          Join(Written) = IF ClaimInvisible(CurA, CurB) THEN Join(CurB)
                          ELSE Join(text_delete(CurA) \o text_insert(CurB))]_vars

----------------------------------------------------------------------------
(* Properties of the tokenizer *)

\* what is left to do: the characters not yet scanned, the final run not yet
\* returned, the buffered tag not yet handed out, the loop not yet left
TokMeasure ==
    3 * (Len(it.html_string) - it.pos) + (IF it.end_reached THEN 0 ELSE 2)
    + Len(it.buffer) + (IF tpc = "done" THEN 0 ELSE 1)

\* C5: split_html ends (each pass of its loop lowers a measure that is never
\* negative), and the tokens it returns, concatenated in order, are the input
\* string.
C5_TotalSplit ==
    /\ [](it.pos <= Len(it.html_string))
    /\ [][TokMeasure' < TokMeasure]_vars
    /\ [](tpc = "done" => Join(result) = it.html_string)

\* a finished run that met a text run, a script block and a trailing remainder
C5_Witness ==
    /\ tpc = "done"
    /\ Len(result) >= 3
    /\ \E k \in 1..Len(result) :
          /\ StartsWithAt(result[k], ScriptOpen, 0)
          /\ Len(result[k]) >= Len(ScriptOpen) + 1 + Len(ScriptClose)
    /\ it.pos < Len(it.html_string)

\* a '<' with no '>' after it
Unterminated(s) == \E i \in 1..Len(s) : s[i] = "<" /\ \A j \in i..Len(s) : s[j] # ">"

\* C10: when a '<' has no later '>', what follows the last matched tag (or the
\* whole input) is one final text run, split into whitespace, word and
\* punctuation tokens like any other text run, wherever the '<' stands in it.
C10_UnterminatedTag ==
    (tpc = "done" /\ Unterminated(it.html_string)) =>
        \E n \in 0..Len(result) :
            /\ Join(SubSeq(result, 1, n)) = Sub(it.html_string, 0, it.pos)
            /\ SubSeq(result, n + 1, Len(result)) =
                  WORD_RE_findall(Sub(it.html_string, it.pos, Len(it.html_string)), 0)

----------------------------------------------------------------------------
(* Properties of the entry point *)

\* C7: a run ends with exit status 1 exactly when an input is not found, the
\* diff fails or the output cannot be written, and with 0 otherwise; a run on two
\* existing, readable inputs whose output can be written ends with 0 and the diff
\* written.  (Runs the user interrupts are left aside.)
C7_ExitStatus ==
    (cpc = "exited" /\ ~interrupted) =>
        /\ exit_code \in {0, 1}
        /\ exit_code = 1 <=>
              (~exists1 \/ ~exists2 \/ ~readable \/ (has_output /\ ~writable))
        /\ exit_code = 0 => written

====
